---- MODULE Spec2Model ----
(***************************************************************************)
(* Model of programming/utils.py: the one-based indexing rewrite           *)
(* (OneBasedIndexingTransformer), the call extractor / substitutor         *)
(* (extract_calls, sub_calls) and the program assembler                    *)
(* (assemble_program_with_calls).                                          *)
(*                                                                         *)
(* Python values are modelled as follows.                                  *)
(*   - an optional integer (an absent slice bound, None) is <<>> or <<n>>; *)
(*   - a container is [kind, items, map]: items is the element sequence of *)
(*     a list / tuple / str / bytearray, map the set of <<key, value>>     *)
(*     pairs of a dict;                                                    *)
(*   - the outcome of evaluating an expression is [exc, ty, val]: exc is   *)
(*     "none" or the name of the exception raised, ty says what was        *)
(*     returned ("elem", "int", "None" or a container kind) and val is the *)
(*     returned value wrapped in a sequence.                               *)
(***************************************************************************)
EXTENDS Integers, Sequences, FiniteSets, TLC

VARIABLES
    obj,      \* indexing: the container bound to the program variable
    last,     \* indexing: the last rewritten operation, its inputs and outcome
    text,     \* calls: the text given to extract_calls
    ext,      \* calls: what extract_calls returned (or that it asserted)
    sub,      \* calls: the last sub_calls invocation and its result
    asm,      \* assembler: the last assemble_program_with_calls invocation
    rw,       \* rewriter: the last statement given to the transformer, and the outcome
    px        \* pop execution: the step-wise run of a rewritten recv.pop(i)

vars == <<obj, last, text, ext, sub, asm, rw, px>>

----------------------------------------------------------------------------
(* Bounds *)

MaxLen == 3        \* longest list / tuple / str / bytearray
MaxTokens == 5     \* number of tokens the input text of extract_calls is built from
MaxCalls == 3      \* most candidate calls in a test body

----------------------------------------------------------------------------
(* Python values *)

None == <<>>
Some(n) == <<n>>

Ok(ty, v) == [exc |-> "none", ty |-> ty, val |-> <<v>>]
Raise(e) == [exc |-> e, ty |-> "exc", val |-> <<>>]

\* isinstance(x, (list, tuple, str)) as written in every rewritten access
SeqTypes == {"list", "tuple", "str"}

\* kinds that are indexed by position
Positional == {"list", "tuple", "str", "bytearray"}

Kinds == Positional \cup {"dict"}

ElemsOf(kind) == IF kind = "str" THEN {"a", "b"} ELSE {7, 8}

Keys == {-1, 0, 1}

SeqsUpTo(S, n) == UNION {[1..k -> S] : k \in 0..n}

\* every dict over Keys: each key absent, or bound to one value
Dicts == {m \in SUBSET (Keys \X ElemsOf("dict")) :
             \A p \in m, q \in m : p[1] = q[1] => p = q}

Containers ==
    {[kind |-> k, items |-> s, map |-> {}] :
        k \in {"list", "tuple", "bytearray"}, s \in SeqsUpTo(ElemsOf("list"), MaxLen)}
    \cup {[kind |-> "str", items |-> s, map |-> {}] : s \in SeqsUpTo(ElemsOf("str"), MaxLen)}
    \cup {[kind |-> "dict", items |-> <<>>, map |-> m] : m \in Dicts}

\* variant: the type test lets every container through
isinstance_any(c) == c.kind \in Kinds

isinstance_seq(c) == c.kind \in SeqTypes

\* c[i] of the original program: positional with negative indices counted
\* from the end, or a key lookup
PyGetItem(c, i) ==
    IF c.kind \in Positional
    THEN LET n == Len(c.items)
         IN IF i >= 0 /\ i < n THEN Ok("elem", c.items[i + 1])
            ELSE IF i < 0 /\ i >= -n THEN Ok("elem", c.items[i + n + 1])
            ELSE Raise("IndexError")
    ELSE IF \E p \in c.map : p[1] = i
         THEN Ok("elem", (CHOOSE p \in c.map : p[1] = i)[2])
         ELSE Raise("KeyError")

\* slice.indices(n): the start and stop a slice resolves to on a sequence of
\* length n, step being a non-zero integer
ClampBound(b, n, step, dflt) ==
    IF b = None THEN dflt
    ELSE LET v == IF b[1] < 0 THEN b[1] + n ELSE b[1]
         IN IF v < 0 THEN (IF step < 0 THEN -1 ELSE 0)
            ELSE IF v >= n THEN (IF step < 0 THEN n - 1 ELSE n)
            ELSE v

RECURSIVE Walk(_, _, _, _)
Walk(items, i, stop, step) ==
    IF (step > 0 /\ i >= stop) \/ (step < 0 /\ i <= stop) THEN <<>>
    ELSE <<items[i + 1]>> \o Walk(items, i + step, stop, step)

\* c[lower:upper:step] of the original program on a positional container
PyGetSlice(c, lower, upper, step) ==
    LET n == Len(c.items)
        st == IF step = None THEN 1 ELSE step[1]
    IN IF st = 0 THEN Raise("ValueError")
       ELSE LET start == ClampBound(lower, n, st, IF st < 0 THEN n - 1 ELSE 0)
                stop == ClampBound(upper, n, st, IF st < 0 THEN -1 ELSE n)
            IN Ok(c.kind, Walk(c.items, start, stop, st))

\* zero-based position of the first occurrence of v
FirstPos(items, v) == CHOOSE k \in 1..Len(items) :
                         items[k] = v /\ \A j \in 1..(k - 1) : items[j] # v

\* c.index(v) of the original program
PyIndex(c, v) ==
    IF c.kind \notin Positional THEN Raise("AttributeError")
    ELSE IF \E k \in 1..Len(c.items) : c.items[k] = v
         THEN Ok("int", FirstPos(c.items, v) - 1)
         ELSE Raise("ValueError")

RemoveAt(items, k) == SubSeq(items, 1, k - 1) \o SubSeq(items, k + 1, Len(items))

\* c.pop(i) of the original program: the outcome and the container afterwards
PyPop(c, i) ==
    IF c.kind \in {"list", "bytearray"}
    THEN LET r == PyGetItem(c, i)
             n == Len(c.items)
         IN IF r.exc # "none" THEN [res |-> Raise("IndexError"), after |-> c]
            ELSE [res |-> r,
                  after |-> [c EXCEPT !.items = RemoveAt(c.items, IF i < 0 THEN i + n + 1 ELSE i + 1)]]
    ELSE IF c.kind = "dict"
    THEN LET r == PyGetItem(c, i)
         IN IF r.exc # "none" THEN [res |-> r, after |-> c]
            ELSE [res |-> r, after |-> [c EXCEPT !.map = {p \in c.map : p[1] # i}]]
    ELSE [res |-> Raise("AttributeError"), after |-> c]

\* c.pop() of the original program
PyPop0(c) ==
    IF c.kind \in {"list", "bytearray"} THEN PyPop(c, -1)
    ELSE IF c.kind = "dict" THEN [res |-> Raise("TypeError"), after |-> c]
    ELSE [res |-> Raise("AttributeError"), after |-> c]

----------------------------------------------------------------------------
(* OneBasedIndexingTransformer: what the rewritten expressions evaluate to *)

\* variant: the sign test written ">= 0", so that index 0 wraps to the last element
shift_idx_ge(v) ==
    IF v >= 0 THEN Ok("int", v - 1)
    ELSE Ok("int", v - 0)

\* value of "(E)-(1 if (E) > 0 else (0 if (E) < 0 else (1/0)))", E evaluating to v
shift_idx(v) ==
    IF v > 0 THEN Ok("int", v - 1)
    ELSE IF v < 0 THEN Ok("int", v - 0)
    ELSE Raise("ZeroDivisionError")

\* an index node is a scalar index or a Slice with optional lower, upper, step
ScalarIdx(i) == [slice |-> FALSE, idx |-> Some(i), lower |-> None, upper |-> None, step |-> None]
SliceIdx(a, b, c) == [slice |-> TRUE, idx |-> None, lower |-> a, upper |-> b, step |-> c]

\* shift of one optional bound: an absent bound yields the empty text
expand_single_idx(b) ==
    IF b = None THEN [exc |-> "none", val |-> None]
    ELSE LET sh == shift_idx(b[1])
         IN IF sh.exc # "none" THEN [exc |-> sh.exc, val |-> None]
            ELSE [exc |-> "none", val |-> Some(sh.val[1])]

\* variant: the step is shifted like the bounds
expand_idx_step(node) ==
    IF node.slice
    THEN LET lo == expand_single_idx(node.lower)
             up == expand_single_idx(node.upper)
             st == expand_single_idx(node.step)
         IN IF lo.exc # "none" THEN [exc |-> lo.exc, node |-> node]
            ELSE IF up.exc # "none" THEN [exc |-> up.exc, node |-> node]
            ELSE IF st.exc # "none" THEN [exc |-> st.exc, node |-> node]
            ELSE [exc |-> "none", node |-> SliceIdx(lo.val, up.val, st.val)]
    ELSE LET sh == expand_single_idx(node.idx)
         IN IF sh.exc # "none" THEN [exc |-> sh.exc, node |-> node]
            ELSE [exc |-> "none", node |-> ScalarIdx(sh.val[1])]

\* value of the index text built by expand_idx: lower and upper are shifted,
\* in that order, the step is unparsed as it is
expand_idx(node) ==
    IF node.slice
    THEN LET lo == expand_single_idx(node.lower)
             up == expand_single_idx(node.upper)
         IN IF lo.exc # "none" THEN [exc |-> lo.exc, node |-> node]
            ELSE IF up.exc # "none" THEN [exc |-> up.exc, node |-> node]
            ELSE [exc |-> "none", node |-> SliceIdx(lo.val, up.val, node.step)]
    ELSE LET sh == expand_single_idx(node.idx)
         IN IF sh.exc # "none" THEN [exc |-> sh.exc, node |-> node]
            ELSE [exc |-> "none", node |-> ScalarIdx(sh.val[1])]

\* the original subscript c[node]
PySubscript(c, node) ==
    IF node.slice THEN PyGetSlice(c, node.lower, node.upper, node.step)
    ELSE PyGetItem(c, node.idx[1])

\* value of "(c)[expand_idx] if isinstance((c), (list, tuple, str)) else (c[node])"
visit_Subscript(c, node) ==
    IF isinstance_seq(c)
    THEN LET e == expand_idx(node)
         IN IF e.exc # "none" THEN Raise(e.exc) ELSE PySubscript(c, e.node)
    ELSE PySubscript(c, node)

\* variant: the argument is handed to pop without the shift
visit_Attribute_pop_noshift(c, i) == PyPop(c, i)

\* "((lambda a: (c.pop)(shift_idx(a))) if isinstance((c), ...) else (c.pop))(i)":
\* in the lambda the attribute c.pop is looked up before the shift is computed
visit_Attribute_pop(c, i) ==
    IF isinstance_seq(c)
    THEN IF c.kind # "list" THEN [res |-> Raise("AttributeError"), after |-> c]
         ELSE LET sh == shift_idx(i)
              IN IF sh.exc # "none" THEN [res |-> Raise(sh.exc), after |-> c]
                 ELSE PyPop(c, sh.val[1])
    ELSE PyPop(c, i)

\* c.pop() is returned as it is
visit_Attribute_pop0(c) == PyPop0(c)

\* "((lambda a: (c.index)(a) + 1) if isinstance((c), ...) else (c.index))(v)"
visit_Attribute_index(c, v) ==
    IF isinstance_seq(c)
    THEN LET r == PyIndex(c, v)
         IN IF r.exc # "none" THEN r ELSE Ok("int", r.val[1] + 1)
    ELSE PyIndex(c, v)

----------------------------------------------------------------------------
(* Indexing: the rewritten accesses applied to a container *)

IdxRange == (0 - (MaxLen + 1))..(MaxLen + 1)
OptIdx == {None} \cup {Some(i) : i \in IdxRange}
OptStep == {None} \cup {Some(i) : i \in {-2, -1, 0, 1, 2}}

NoOp == [op |-> "none", recv |-> [kind |-> "list", items |-> <<>>, map |-> {}],
         node |-> ScalarIdx(1), arg |-> <<>>, res |-> Raise("none")]

\* Each run applies one rewritten access to the container it starts with.
Continues == last.op = "none"

Subscript(i) ==
    /\ Continues
    /\ last' = [op |-> "subscript", recv |-> obj, node |-> ScalarIdx(i), arg |-> <<>>,
                res |-> visit_Subscript(obj, ScalarIdx(i))]
    /\ UNCHANGED obj

SliceRead(a, b, c) ==
    /\ Continues
    /\ obj.kind \in Positional
    /\ last' = [op |-> "slice", recv |-> obj, node |-> SliceIdx(a, b, c), arg |-> <<>>,
                res |-> visit_Subscript(obj, SliceIdx(a, b, c))]
    /\ UNCHANGED obj

IndexCall(v) ==
    /\ Continues
    /\ last' = [op |-> "index", recv |-> obj, node |-> ScalarIdx(1), arg |-> <<v>>,
                res |-> visit_Attribute_index(obj, v)]
    /\ UNCHANGED obj

PopCall(i) ==
    LET r == visit_Attribute_pop(obj, i)
    IN /\ Continues
       /\ last' = [op |-> "pop", recv |-> obj, node |-> ScalarIdx(i), arg |-> <<>>,
                   res |-> r.res]
       /\ obj' = r.after

PopNoArg ==
    LET r == visit_Attribute_pop0(obj)
    IN /\ Continues
       /\ last' = [op |-> "pop0", recv |-> obj, node |-> ScalarIdx(1), arg |-> <<>>,
                   res |-> r.res]
       /\ obj' = r.after

----------------------------------------------------------------------------
(* extract_calls and sub_calls.  A text is a sequence of characters;      *)
(* offsets are zero-based as in the source, so the character at offset i   *)
(* of s is s[i + 1].                                                       *)

Candidate == <<"c", "a", "n", "d", "i", "d", "a", "t", "e", "(">>

\* the input texts are built from these pieces; the scanner treats both quote
\* characters alike, so one of them stands for both
Tokens == {Candidate, <<"(">>, <<")">>, <<"'">>, <<"x">>}

RECURSIVE Flatten(_)
Flatten(ts) == IF ts = <<>> THEN <<>> ELSE Head(ts) \o Flatten(Tail(ts))

\* the texts of at most n pieces
Texts(n) == {Flatten(ts) : ts \in SeqsUpTo(Tokens, n)}

SetMin(S) == CHOOSE m \in S : \A x \in S : m <= x

\* s.find(pat, from)
Find(s, pat, from) ==
    LET hits == {i \in from..(Len(s) - Len(pat)) : SubSeq(s, i + 1, i + Len(pat)) = pat}
    IN IF hits = {} THEN -1 ELSE SetMin(hits)

\* s[lo:hi] with step 1, either bound optional, negative bounds counted from the end
StrSlice(s, lo, hi) ==
    LET n == Len(s)
    IN Walk(s, ClampBound(lo, n, 1, 0), ClampBound(hi, n, 1, n), 1)

\* the for loop of extract_calls over enumerate(s[idx:]), from position i on
RECURSIVE ScanCall(_, _, _, _, _)
ScanCall(rest, i, started, in_string, depth) ==
    IF i >= Len(rest)
    THEN [broke |-> FALSE, end |-> -1, started |-> started, in_string |-> in_string,
          depth |-> depth]
    ELSE LET c == rest[i + 1]
             in_string2 == IF c \in {"\"", "'"} THEN ~in_string ELSE in_string
             started2 == IF ~in_string2 /\ c = "(" THEN TRUE ELSE started
             depth2 == IF in_string2 THEN depth
                       ELSE IF c = "(" THEN depth + 1
                       ELSE IF c = ")" THEN depth - 1
                       ELSE depth
         IN IF ~in_string2 /\ started2 /\ depth2 = 0
            THEN [broke |-> TRUE, end |-> i, started |-> started2,
                  in_string |-> in_string2, depth |-> depth2]
            ELSE ScanCall(rest, i + 1, started2, in_string2, depth2)

\* the while loop of extract_calls
RECURSIVE ExtractLoop(_, _, _, _)
ExtractLoop(s, idx, span_indices, calls) ==
    IF idx = -1 THEN [exc |-> "none", spans |-> span_indices, calls |-> calls]
    ELSE LET sc == ScanCall(StrSlice(s, Some(idx), None), 0, FALSE, FALSE, 0)
         IN IF ~(sc.depth = 0 /\ sc.started /\ ~sc.in_string)
            THEN [exc |-> "AssertionError", spans |-> <<>>, calls |-> <<>>]
            ELSE ExtractLoop(s, Find(s, Candidate, idx + 1),
                             Append(span_indices, <<idx, idx + sc.end + 1>>),
                             Append(calls, StrSlice(s, Some(idx), Some(idx + sc.end + 1))))

extract_calls(s) ==
    IF Find(s, Candidate, 0) = -1
    THEN [exc |-> "AssertionError", spans |-> <<>>, calls |-> <<>>]
    ELSE ExtractLoop(s, Find(s, Candidate, 0), <<>>, <<>>)

\* the for loop of sub_calls over zip(call_span_indices, called_values)
RECURSIVE SubLoop(_, _, _, _, _)
SubLoop(program, spans, values, k, delta) ==
    IF k > Len(spans) THEN [exc |-> "none", out |-> program]
    ELSE LET start == spans[k][1]
             end == spans[k][2]
             value == values[k]
         IN IF value = <<>> THEN [exc |-> "IndexError", out |-> program]
            ELSE IF ~(value[1] = "[" /\ value[Len(value)] = "]")
            THEN [exc |-> "AssertionError", out |-> program]
            ELSE LET inner == StrSlice(value, Some(1), Some(-1))
                 IN SubLoop(StrSlice(program, None, Some(start + delta)) \o inner
                               \o StrSlice(program, Some(end + delta), None),
                            spans, values, k + 1, delta + Len(inner) - (end - start))

\* variant: the loop without the running offset correction
RECURSIVE SubLoopNoDelta(_, _, _, _)
SubLoopNoDelta(program, spans, values, k) ==
    IF k > Len(spans) THEN [exc |-> "none", out |-> program]
    ELSE LET inner == StrSlice(values[k], Some(1), Some(-1))
         IN SubLoopNoDelta(StrSlice(program, None, Some(spans[k][1])) \o inner
                              \o StrSlice(program, Some(spans[k][2]), None),
                           spans, values, k + 1)

sub_calls_nodelta(program, call_span_indices, called_values) ==
    SubLoopNoDelta(program, call_span_indices, called_values, 1)

\* variant: the brackets are left around each value
sub_calls_keepbrackets(program, call_span_indices, called_values) ==
    SubLoop(program, call_span_indices,
            [k \in 1..Len(called_values) |-> <<"[">> \o called_values[k] \o <<"]">>], 1, 0)

sub_calls(program, call_span_indices, called_values) ==
    IF Len(call_span_indices) # Len(called_values)
    THEN [exc |-> "ValueError", out |-> program]
    ELSE SubLoop(program, call_span_indices, called_values, 1, 0)

Bracket(s) == <<"[">> \o s \o <<"]">>

\* replacement values: shorter than, and longer than, any call span
FixedValues == {Bracket(<<>>),
                Bracket(<<"1", "2", "3", "4", "5", "6", "7", "8", "9", "0", "1", "2", "3">>)}

NoExt == [done |-> FALSE, exc |-> "none", spans |-> <<>>, calls |-> <<>>]
NoSub == [done |-> FALSE, exc |-> "none", values |-> <<>>, out |-> <<>>]

ExtractCalls ==
    /\ ~ext.done
    /\ LET r == extract_calls(text)
       IN ext' = [done |-> TRUE, exc |-> r.exc, spans |-> r.spans, calls |-> r.calls]
    /\ UNCHANGED <<text, sub>>

SubCalls ==
    /\ ext.done /\ ext.exc = "none"
    /\ \E values \in [1..Len(ext.spans) -> FixedValues \cup {Bracket(c) : c \in {ext.calls[j] : j \in 1..Len(ext.calls)}}] :
          LET r == sub_calls(text, ext.spans, values)
          IN sub' = [done |-> TRUE, exc |-> r.exc, values |-> values, out |-> r.out]
    /\ UNCHANGED <<text, ext>>

----------------------------------------------------------------------------
(* assemble_program_with_calls.  A call extracted from the test body is    *)
(* [callee, args]; the formatted call print([entry_point args]) is         *)
(* [print |-> [callee, args]].  What running a call does is an input: its  *)
(* outcome under the one-based rewrite and whether it faults as it is.     *)

ArgTexts == {"(0)", "(1)", "(2)"}

\* outcome of running one formatted call under the one-based rewrite:
\*   IndexZero      ZeroDivisionError raised by the 1/0 of shift_idx
\*   ZeroDivision   ZeroDivisionError raised by a division of the program itself
\*   OtherFault     any other exception
Outcomes == {"ok", "IndexZero", "ZeroDivision", "OtherFault"}

Perturbations == {"None", "one_based_indexing", "unknown"}

TestCalls == {[callee |-> "candidate", args |-> a] : a \in ArgTexts}

\* f"print([{entry_point}{c[len('candidate'):]}])"
FormatCall(entry_point, c) == [print |-> [callee |-> entry_point, args |-> c.args]]

FormatAll(entry_point, calls) == [k \in 1..Len(calls) |-> FormatCall(entry_point, calls[k])]

InSeq(x, q) == \E k \in 1..Len(q) : q[k] = x

\* the dedup loop: first occurrences, in order
RECURSIVE DedupLoop(_, _, _)
DedupLoop(formatted_calls, k, new_formatted_calls) ==
    IF k > Len(formatted_calls) THEN new_formatted_calls
    ELSE DedupLoop(formatted_calls, k + 1,
                   IF InSeq(formatted_calls[k], new_formatted_calls)
                   THEN new_formatted_calls
                   ELSE Append(new_formatted_calls, formatted_calls[k]))

\* eval_program_with_calls(program, perturbation) of a program with one call
EvalOne(call, perturbation, pert) ==
    IF perturbation = "one_based_indexing"
    THEN (IF pert[call.print.args] \in {"IndexZero", "ZeroDivision"} THEN "ZeroDivisionError"
          ELSE IF pert[call.print.args] = "OtherFault" THEN "OtherFault"
          ELSE "none")
    ELSE "AssertionError"

\* the filtering loop over enumerate(formatted_calls)
RECURSIVE FilterLoop(_, _, _, _, _, _, _)
FilterLoop(formatted_calls, i, perturbation, pert, indices, kept, filtered) ==
    IF i >= Len(formatted_calls)
    THEN [exc |-> "none", indices |-> indices, calls |-> kept, filtered |-> filtered]
    ELSE LET e == EvalOne(formatted_calls[i + 1], perturbation, pert)
         IN IF e = "ZeroDivisionError"
            THEN FilterLoop(formatted_calls, i + 1, perturbation, pert, indices, kept, TRUE)
            ELSE IF e # "none"
            THEN [exc |-> e, indices |-> indices, calls |-> kept, filtered |-> filtered]
            ELSE FilterLoop(formatted_calls, i + 1, perturbation, pert,
                            Append(indices, i), Append(kept, formatted_calls[i + 1]), filtered)

\* eval_program_with_calls(program) of the assembled, unperturbed program
EvalPlain(formatted_calls, base_faults) ==
    IF formatted_calls = <<>> THEN "IndexError"
    ELSE IF \E k \in 1..Len(formatted_calls) : formatted_calls[k].print.args \in base_faults
    THEN "OtherFault"
    ELSE "none"

assemble_program_with_calls(calls, entry_point, perturbation_filter, pert, base_faults, asserts_pass) ==
    LET formatted0 == FormatAll(entry_point, calls)
        dup == Len(formatted0) # Cardinality({formatted0[k] : k \in 1..Len(formatted0)})
        formatted1 == IF dup THEN DedupLoop(formatted0, 1, <<>>) ELSE formatted0
        f == IF perturbation_filter # "None"
             THEN FilterLoop(formatted1, 0, perturbation_filter, pert, <<>>, <<>>, dup)
             ELSE [exc |-> "none", indices |-> [k \in 1..Len(formatted1) |-> k - 1],
                   calls |-> formatted1, filtered |-> dup]
        final == IF ~f.filtered
                 THEN (IF EvalPlain(f.calls, base_faults) # "none"
                       THEN EvalPlain(f.calls, base_faults)
                       ELSE IF ~asserts_pass THEN "AssertionError" ELSE "none")
                 ELSE IF Len(f.calls) > 0 THEN EvalPlain(f.calls, base_faults)
                 ELSE "none"
    IN IF f.exc # "none"
       THEN [exc |-> f.exc, program |-> <<>>, indices |-> <<>>, filtered |-> f.filtered]
       ELSE IF final # "none"
       THEN [exc |-> final, program |-> <<>>, indices |-> <<>>, filtered |-> f.filtered]
       ELSE [exc |-> "none", program |-> f.calls, indices |-> f.indices, filtered |-> f.filtered]

NoAsm == [done |-> FALSE, calls |-> <<>>, entry_point |-> "f", perturbation |-> "None",
          pert |-> [a \in ArgTexts |-> "ok"], base_faults |-> {}, asserts_pass |-> TRUE,
          exc |-> "none", program |-> <<>>, indices |-> <<>>, filtered |-> FALSE]

\* the benchmark records, of at most n calls, and the perturbation identifiers
\* the assembler is given
AsmInputs(n) ==
    {[NoAsm EXCEPT !.calls = calls, !.perturbation = perturbation, !.pert = pert,
                   !.base_faults = base_faults, !.asserts_pass = asserts_pass] :
        calls \in SeqsUpTo(TestCalls, n) \ {<<>>},
        perturbation \in Perturbations,
        pert \in [ArgTexts -> Outcomes],
        base_faults \in SUBSET ArgTexts,
        asserts_pass \in BOOLEAN}

Assemble ==
    /\ ~asm.done
    /\ LET r == assemble_program_with_calls(asm.calls, asm.entry_point, asm.perturbation,
                                            asm.pert, asm.base_faults, asm.asserts_pass)
       IN asm' = [asm EXCEPT !.done = TRUE, !.exc = r.exc, !.program = r.program,
                             !.indices = r.indices, !.filtered = r.filtered]

----------------------------------------------------------------------------
(* OneBasedIndexingTransformer: which statements the transformer accepts.  *)
(* A syntax tree node is [kind, kids]; an absent slice component is the    *)
(* node of kind "None", which generic_visit skips.                         *)

Node(kind, kids) == [kind |-> kind, kids |-> kids]

types_we_know_how_to_handle ==
    {"Constant", "UnaryOp", "BinOp", "Name", "Subscript", "IfExp", "Slice"}

Atoms == {Node("Constant", <<>>), Node("Name", <<>>),
          Node("Call", <<Node("Name", <<>>)>>)}

Absent == Node("None", <<>>)

\* the expressions written between the brackets of a subscript
IndexExprs ==
    Atoms
    \cup {Node("UnaryOp", <<a>>) : a \in Atoms}
    \cup {Node(k, <<a, b>>) : k \in {"BinOp", "Tuple", "Compare"}, a \in Atoms, b \in Atoms}
    \cup {Node("IfExp", <<a, b, c>>) : a \in Atoms, b \in Atoms, c \in Atoms}
    \cup {Node("Subscript", <<Node("Name", <<>>), a>>) : a \in Atoms}
    \cup {Node("Slice", <<a, b, c>>) :
             a \in Atoms \cup {Absent}, b \in Atoms \cup {Absent}, c \in Atoms \cup {Absent}}

SubscriptOf(idx) == Node("Subscript", <<Node("Name", <<>>), idx>>)

\* the right-hand sides of the assignments
ValueExprs == {Node("Name", <<>>), SubscriptOf(Node("Call", <<Node("Name", <<>>)>>))}

\* Expr: a subscript read; Assign: kids are the targets then the value;
\* AugAssign: kids are the target and the value
Statements ==
    {Node("Expr", <<SubscriptOf(i)>>) : i \in IndexExprs}
    \cup {Node("Assign", <<SubscriptOf(i), v>>) : i \in IndexExprs, v \in ValueExprs}
    \cup {Node("Assign", <<Node("Name", <<>>), SubscriptOf(i), v>>) :
             i \in IndexExprs, v \in ValueExprs}
    \cup {Node("Assign", <<Node("Name", <<>>), SubscriptOf(i)>>) : i \in IndexExprs}
    \cup {Node("AugAssign", <<SubscriptOf(i), v>>) : i \in IndexExprs, v \in ValueExprs}
    \cup {Node("AugAssign", <<Node("Name", <<>>), SubscriptOf(i)>>) : i \in IndexExprs}

\* the first fault among a sequence of outcomes, "none" if there is none
RECURSIVE FirstFault(_)
FirstFault(es) ==
    IF es = <<>> THEN "none"
    ELSE IF Head(es) # "none" THEN Head(es)
    ELSE FirstFault(Tail(es))

\* the assert that opens visit_Subscript, and guards the subscript target of
\* visit_Assign and visit_AugAssign: the kind of node.slice itself is tested
KnownSlice(subscript) == subscript.kids[2].kind \in types_we_know_how_to_handle

\* NodeTransformer.visit: the fault the transformer raises on node, or "none"
RECURSIVE visit(_)
generic_visit(node) ==
    FirstFault([k \in 1..Len(node.kids) |->
                   IF node.kids[k].kind = "None" THEN "none" ELSE visit(node.kids[k])])

visit_Assign(node) ==
    LET n == Len(node.kids)
        targets == SubSeq(node.kids, 1, n - 1)
        value == node.kids[n]
    IN IF ~\E k \in 1..(n - 1) : targets[k].kind = "Subscript" THEN generic_visit(node)
       ELSE IF n - 1 > 1 THEN "NotImplementedError"
       ELSE IF ~KnownSlice(targets[1]) THEN "AssertionError"
       ELSE FirstFault(<<generic_visit(targets[1]), visit(value)>>)

\* the augmented assignment is re-parsed from "(lhs)[(slice)] op= (value)",
\* which is not Python when the slice is a Slice
visit_AugAssign(node) ==
    LET target == node.kids[1]
        value == node.kids[2]
    IN IF target.kind # "Subscript" THEN generic_visit(node)
       ELSE IF ~KnownSlice(target) THEN "AssertionError"
       ELSE FirstFault(<<generic_visit(target), visit(value),
                         IF target.kids[2].kind = "Slice" THEN "SyntaxError" ELSE "none">>)

visit_Subscript_node(node) ==
    IF ~KnownSlice(node) THEN "AssertionError" ELSE generic_visit(node)

visit(node) ==
    IF node.kind = "Subscript" THEN visit_Subscript_node(node)
    ELSE IF node.kind = "Assign" THEN visit_Assign(node)
    ELSE IF node.kind = "AugAssign" THEN visit_AugAssign(node)
    ELSE generic_visit(node)

NoRw == [done |-> FALSE, stmt |-> Node("Pass", <<>>), exc |-> "none"]

Rewrite ==
    /\ ~rw.done
    /\ rw' = [rw EXCEPT !.done = TRUE, !.exc = visit(rw.stmt)]

----------------------------------------------------------------------------
(* Execution of the expression visit_Attribute builds for recv.pop(i):     *)
(*   ((lambda a: (recv.pop)(shift_idx(a)))                                 *)
(*        if isinstance((recv), (list, tuple, str)) else (recv.pop))(i)    *)
(* one step per evaluation.  recv is an expression with a side effect: its *)
(* k-th evaluation yields the k-th object of src.                          *)

Receivers ==
    {[kind |-> "list", items |-> <<7, 8>>, map |-> {}],
     [kind |-> "list", items |-> <<8>>, map |-> {}],
     [kind |-> "tuple", items |-> <<7, 8>>, map |-> {}],
     [kind |-> "dict", items |-> <<>>, map |-> {<<1, 7>>, <<0, 8>>}],
     [kind |-> "bytearray", items |-> <<7, 8>>, map |-> {}]}

PopArgs == {-1, 0, 1, 2}

NoPx == [pc |-> "idle", src |-> <<>>, arg |-> 0, evals |-> 0, tested |-> <<>>,
         target |-> <<>>, branch |-> "none", shifts |-> 0, argval |-> <<>>,
         res |-> Raise("none")]

\* the test of the conditional expression: recv is evaluated, then isinstance
EvalGuard ==
    /\ px.pc = "guard"
    /\ LET v == px.src[px.evals + 1]
       IN px' = [px EXCEPT !.evals = @ + 1, !.tested = <<v>>,
                           !.branch = IF isinstance_seq(v) THEN "lambda" ELSE "plain",
                           !.pc = IF isinstance_seq(v) THEN "arg" ELSE "else"]

\* the else operand (recv.pop): recv is evaluated and its pop looked up
EvalElse ==
    /\ px.pc = "else"
    /\ LET v == px.src[px.evals + 1]
       IN px' = [px EXCEPT !.evals = @ + 1, !.target = <<v>>,
                           !.pc = IF v.kind \in {"list", "dict", "bytearray"} THEN "arg" ELSE "done",
                           !.res = IF v.kind \in {"list", "dict", "bytearray"} THEN @
                                   ELSE Raise("AttributeError")]

\* the argument i of the call
EvalArg ==
    /\ px.pc = "arg"
    /\ px' = [px EXCEPT !.argval = <<px.arg>>,
                        !.pc = IF px.branch = "lambda" THEN "body" ELSE "pop"]

\* the body of the lambda starts with (recv.pop): recv is evaluated again
EvalLambdaRecv ==
    /\ px.pc = "body"
    /\ LET v == px.src[px.evals + 1]
       IN px' = [px EXCEPT !.evals = @ + 1, !.target = <<v>>,
                           !.pc = IF v.kind \in {"list", "dict", "bytearray"} THEN "shift" ELSE "done",
                           !.res = IF v.kind \in {"list", "dict", "bytearray"} THEN @
                                   ELSE Raise("AttributeError")]

\* the argument of the inner call: shift_idx(a)
ShiftArg ==
    /\ px.pc = "shift"
    /\ LET sh == shift_idx(px.argval[1])
       IN px' = [px EXCEPT !.shifts = @ + 1,
                           !.argval = IF sh.exc = "none" THEN <<sh.val[1]>> ELSE @,
                           !.pc = IF sh.exc = "none" THEN "pop" ELSE "done",
                           !.res = IF sh.exc = "none" THEN @ ELSE Raise(sh.exc)]

\* the call of the bound pop
DoPop ==
    /\ px.pc = "pop"
    /\ px' = [px EXCEPT !.pc = "done", !.res = PyPop(px.target[1], px.argval[1]).res]

----------------------------------------------------------------------------
(* Specifications *)

Init ==
    /\ obj \in Containers
    /\ last = NoOp
    /\ text = <<>> /\ ext = NoExt /\ sub = NoSub /\ asm = NoAsm /\ rw = NoRw /\ px = NoPx

Next ==
    \/ (\E i \in IdxRange : Subscript(i)) /\ UNCHANGED <<text, ext, sub, asm, rw, px>>
    \/ (\E a \in OptIdx, b \in OptIdx, c \in OptStep : SliceRead(a, b, c))
          /\ UNCHANGED <<text, ext, sub, asm, rw, px>>
    \/ (\E v \in ElemsOf(obj.kind) : IndexCall(v)) /\ UNCHANGED <<text, ext, sub, asm, rw, px>>
    \/ (\E i \in IdxRange : PopCall(i)) /\ UNCHANGED <<text, ext, sub, asm, rw, px>>
    \/ PopNoArg /\ UNCHANGED <<text, ext, sub, asm, rw, px>>

Spec == Init /\ [][Next]_vars

InitCalls ==
    /\ text \in Texts(MaxTokens)
    /\ ext = NoExt /\ sub = NoSub
    /\ obj = NoOp.recv /\ last = NoOp /\ asm = NoAsm /\ rw = NoRw /\ px = NoPx

NextCalls ==
    \/ ExtractCalls /\ UNCHANGED <<obj, last, asm, rw, px>>
    \/ SubCalls /\ UNCHANGED <<obj, last, asm, rw, px>>

SpecCalls == InitCalls /\ [][NextCalls]_vars

InitAsm ==
    /\ asm \in AsmInputs(MaxCalls)
    /\ obj = NoOp.recv /\ last = NoOp /\ text = <<>> /\ ext = NoExt /\ sub = NoSub
    /\ rw = NoRw /\ px = NoPx

NextAsm == Assemble /\ UNCHANGED <<obj, last, text, ext, sub, rw, px>>

SpecAsm == InitAsm /\ [][NextAsm]_vars

InitRewrite ==
    /\ rw \in {[NoRw EXCEPT !.stmt = stmt] : stmt \in Statements}
    /\ obj = NoOp.recv /\ last = NoOp /\ text = <<>> /\ ext = NoExt /\ sub = NoSub
    /\ asm = NoAsm /\ px = NoPx

NextRewrite == Rewrite /\ UNCHANGED <<obj, last, text, ext, sub, asm, px>>

SpecRewrite == InitRewrite /\ [][NextRewrite]_vars

InitPop ==
    /\ \E s \in [1..2 -> Receivers], i \in PopArgs :
          px = [NoPx EXCEPT !.pc = "guard", !.src = s, !.arg = i]
    /\ obj = NoOp.recv /\ last = NoOp /\ text = <<>> /\ ext = NoExt /\ sub = NoSub
    /\ asm = NoAsm /\ rw = NoRw

NextPop ==
    \/ EvalGuard /\ UNCHANGED <<obj, last, text, ext, sub, asm, rw>>
    \/ EvalElse /\ UNCHANGED <<obj, last, text, ext, sub, asm, rw>>
    \/ EvalArg /\ UNCHANGED <<obj, last, text, ext, sub, asm, rw>>
    \/ EvalLambdaRecv /\ UNCHANGED <<obj, last, text, ext, sub, asm, rw>>
    \/ ShiftArg /\ UNCHANGED <<obj, last, text, ext, sub, asm, rw>>
    \/ DoPop /\ UNCHANGED <<obj, last, text, ext, sub, asm, rw>>

SpecPop == InitPop /\ [][NextPop]_vars

----------------------------------------------------------------------------
(* Properties *)

\* a bound of the source program that is positive or absent, moved down by one
OneLess(b) == IF b = None THEN None ELSE Some(b[1] - 1)
PositiveOrAbsent(b) == b = None \/ b[1] > 0

\* C1: on a list, tuple or str the rewritten s[i] yields the original s[i-1]
\* when i > 0, the original s[i] when i < 0, and raises ZeroDivisionError
\* when i = 0.
C1_SubscriptShift ==
    (last.op = "subscript" /\ last.recv.kind \in SeqTypes) =>
        LET i == last.node.idx[1]
        IN /\ (i > 0 => last.res = PyGetItem(last.recv, i - 1))
           /\ (i < 0 => last.res = PyGetItem(last.recv, i))
           /\ (i = 0 => last.res.exc = "ZeroDivisionError")

\* C1 witness: index 3 of a three-character str returns its last character
C1_Witness ==
    /\ last.op = "subscript" /\ last.recv.kind = "str"
    /\ Len(last.recv.items) = 3 /\ last.node.idx = Some(3)
    /\ last.res = Ok("elem", last.recv.items[3])

\* C2: on a list, tuple or str the rewritten s[a:b:c] with a and b positive or
\* absent equals the original slice whose present bounds are one less, an
\* absent bound staying absent and the step c being the same, whatever its sign.
C2_SliceShift ==
    (/\ last.op = "slice" /\ last.recv.kind \in SeqTypes
     /\ PositiveOrAbsent(last.node.lower) /\ PositiveOrAbsent(last.node.upper)) =>
        last.res = PyGetSlice(last.recv, OneLess(last.node.lower),
                              OneLess(last.node.upper), last.node.step)

\* C2 witness: s[3::-1] on a three-element list returns the three elements reversed
C2_Witness ==
    /\ last.op = "slice" /\ last.recv.kind = "list" /\ Len(last.recv.items) = 3
    /\ last.node.lower = Some(3) /\ last.node.upper = None /\ last.node.step = Some(-1)
    /\ last.res = Ok("list", <<last.recv.items[3], last.recv.items[2], last.recv.items[1]>>)

\* C3: on a container that is not a list, tuple or str the rewritten m[k]
\* returns what the original m[k] returns, for every k including 0, and never
\* raises the index-zero fault.
C3_MappingPassthrough ==
    (last.op = "subscript" /\ last.recv.kind \notin SeqTypes) =>
        /\ last.res = PyGetItem(last.recv, last.node.idx[1])
        /\ last.res.exc # "ZeroDivisionError"

\* C3 witness: a dict holding the key 0 is read at key 0 and its value returned
C3_Witness ==
    /\ last.op = "subscript" /\ last.recv.kind = "dict" /\ last.node.idx = Some(0)
    /\ last.res.exc = "none"
    /\ <<0, last.res.val[1]>> \in last.recv.map

\* C4: on a list the rewritten lst.index(v) returns the original position plus
\* one; the rewritten lst.pop(i) with i > 0 returns the element and leaves the
\* list that the original lst.pop(i-1) does; lst.pop() is as in the original.
C4_IndexAndPop ==
    /\ (last.op = "index" /\ last.recv.kind = "list") =>
          LET o == PyIndex(last.recv, last.arg[1])
          IN IF o.exc = "none" THEN last.res = Ok("int", o.val[1] + 1) ELSE last.res = o
    /\ (last.op = "pop" /\ last.recv.kind = "list" /\ last.node.idx[1] > 0) =>
          /\ last.res = PyPop(last.recv, last.node.idx[1] - 1).res
          /\ obj = PyPop(last.recv, last.node.idx[1] - 1).after
    /\ (last.op = "pop0" /\ last.recv.kind = "list") =>
          /\ last.res = PyPop(last.recv, -1).res
          /\ obj = PyPop(last.recv, -1).after

\* C4 witness: pop(2) on a three-element list returns its second element and
\* leaves the first and the third
C4_Witness ==
    /\ last.op = "pop" /\ last.recv.kind = "list" /\ Len(last.recv.items) = 3
    /\ last.node.idx = Some(2)
    /\ last.res = Ok("elem", last.recv.items[2])
    /\ obj.items = <<last.recv.items[1], last.recv.items[3]>>

RoundTripValues == [j \in 1..Len(ext.calls) |-> Bracket(ext.calls[j])]

\* C5: sub_calls applied to the spans of extract_calls(t) and to each extracted
\* call wrapped in brackets returns t.
C5_RoundTrip ==
    (sub.done /\ sub.values = RoundTripValues) => (sub.exc = "none" /\ sub.out = text)

\* C5 witness: a text with at least two call sites went through the round trip
C5_Witness ==
    /\ sub.done /\ sub.values = RoundTripValues /\ Len(ext.spans) >= 2
    /\ sub.out = text

\* the text with each span replaced by the inside of its value, put together
\* piece by piece: the text up to the span, the value, and so on from the
\* end of the span
RECURSIVE Spliced(_, _, _, _, _)
Spliced(t, spans, values, k, cursor) ==
    IF k > Len(spans) THEN StrSlice(t, Some(cursor), None)
    ELSE StrSlice(t, Some(cursor), Some(spans[k][1]))
            \o SubSeq(values[k], 2, Len(values[k]) - 1)
            \o Spliced(t, spans, values, k + 1, spans[k][2])

\* no span starts before the one recorded before it has ended
SpansDisjoint(spans) == \A j \in 1..(Len(spans) - 1) : spans[j][2] <= spans[j + 1][1]

\* C10 as stated: for every text and every list of bracketed values, sub_calls
\* returns the text with each recorded span replaced by its value without the
\* brackets and everything outside the spans unchanged.
C10_EverySpanReplaced ==
    sub.done => (sub.exc = "none" /\ sub.out = Spliced(text, ext.spans, sub.values, 1, 0))

\* C10 amended: the same, for the texts in which no candidate call starts
\* inside the span of another.
C10_DisjointSpansReplaced ==
    (sub.done /\ SpansDisjoint(ext.spans)) =>
        (sub.exc = "none" /\ sub.out = Spliced(text, ext.spans, sub.values, 1, 0))

\* C10 witness: two call sites, the first replaced by a shorter text and the
\* second by a longer one
C10_Witness ==
    /\ sub.done /\ Len(ext.spans) = 2 /\ SpansDisjoint(ext.spans)
    /\ sub.values[1] = Bracket(<<>>)
    /\ Len(sub.values[2]) > ext.spans[2][2] - ext.spans[2][1] + 2
    /\ sub.out = Spliced(text, ext.spans, sub.values, 1, 0)

\* C6 as stated: every returned index is the position, in the list of calls
\* extracted from the test body, of the call the print line at that place was
\* formatted from.
C6_IndicesAreOriginal ==
    (asm.done /\ asm.exc = "none") =>
        /\ Len(asm.indices) = Len(asm.program)
        /\ \A k \in 1..Len(asm.indices) :
              /\ asm.indices[k] + 1 \in 1..Len(asm.calls)
              /\ FormatCall(asm.entry_point, asm.calls[asm.indices[k] + 1]) = asm.program[k]

\* C7 as stated: under the one-based perturbation a call is dropped exactly
\* when its evaluation raises the index-zero fault, the other calls are kept
\* in order, and any other fault of a call reaches the caller.
C7_OnlyIndexZeroDropped ==
    (asm.done /\ asm.perturbation = "one_based_indexing") =>
        LET D == DedupLoop(FormatAll(asm.entry_point, asm.calls), 1, <<>>)
            Kept(c) == asm.pert[c.print.args] # "IndexZero"
        IN /\ (\E k \in 1..Len(D) : asm.pert[D[k].print.args] \in {"ZeroDivision", "OtherFault"})
                 => asm.exc # "none"
           /\ asm.exc = "none" =>
                 /\ asm.program = SelectSeq(D, Kept)
                 /\ (asm.program # D => asm.filtered)

RECURSIVE HasUnknownKind(_)
HasUnknownKind(node) ==
    \/ node.kind \notin types_we_know_how_to_handle \cup {"None"}
    \/ \E k \in 1..Len(node.kids) : HasUnknownKind(node.kids[k])

\* C8 as stated: a statement with a subscript whose index expression holds an
\* expression kind outside the handled ones is not rewritten: the transformer
\* raises.
C8_UnknownKindsRejected ==
    (/\ rw.done
     /\ \E k \in 1..Len(rw.stmt.kids) :
           /\ rw.stmt.kids[k].kind = "Subscript"
           /\ HasUnknownKind(rw.stmt.kids[k].kids[2])) =>
        rw.exc # "none"

\* C9 as stated: when the rewritten recv.pop(i) has run, recv has been
\* evaluated exactly once, and the shift was applied only if the value the type
\* test saw is a list, tuple or str.
C9_ReceiverEvaluatedOnce ==
    px.pc = "done" =>
        /\ px.evals = 1
        /\ (px.shifts > 0 => px.tested[1].kind \in SeqTypes)

====
